---- MODULE Spec2Model ----
(***************************************************************************)
(* MHD BA bus departures integration: the data update coordinator          *)
(* (coordinator.py), the entry setup (__init__.py) and the departures      *)
(* sensor (sensor.py).                                                     *)
(*                                                                         *)
(* Python values are modelled as tagged records so that None, integers,    *)
(* strings and lists can be compared and so that Python truthiness         *)
(* (`if x`, `not x`) is computed as the interpreter computes it.           *)
(***************************************************************************)
EXTENDS Integers, Sequences, FiniteSets, TLC

VARIABLES
    stop_name,            \* coordinator.stop_name
    stopping_lines,       \* coordinator.stopping_lines
    last_update,          \* coordinator.last_update
    data,                 \* coordinator.data, the published snapshot
    last_update_success,  \* coordinator.last_update_success
    clock,                \* the wall clock read by dt_util.now()
    setup,                \* outcome of the last async_setup_entry
    registry,             \* hass.data[DOMAIN] holds the coordinator
    sensor,               \* the MhdBaDeparturesSensor entity exists
    lastOp,               \* history: the last refresh cycle, its inputs and pre-state
    published,            \* history: snapshot returned by the latest successful cycle
    config,               \* the sensor's max_departures, filter_lines, direction
    now,                  \* dt_util.utcnow() as read by the sensor
    view,                 \* the value last read from the sensor
    entries,              \* the config entries the config flow has created
    flow                  \* the last result of the config flow, with its input

vars == <<stop_name, stopping_lines, last_update, data, last_update_success,
          clock, setup, registry, sensor, lastOp, published, config, now, view,
          entries, flow>>

coordVars == <<stop_name, stopping_lines, last_update, data, last_update_success,
               clock, setup, registry, sensor, lastOp, published>>

(***************************************************************************)
(* Python values                                                           *)
(***************************************************************************)
PyNone == [t |-> "none"]
PyInt(n) == [t |-> "int", v |-> n]
PyStr(s) == [t |-> "str", v |-> s]
PyList(s) == [t |-> "list", v |-> s]
PyBool(b) == [t |-> "bool", v |-> b]

\* bool(x): None, 0, "" and [] are falsy, every other value is truthy.
Truthy(x) ==
    CASE x.t = "none" -> FALSE
      [] x.t = "int" -> x.v # 0
      [] x.t = "str" -> x.v # ""
      [] x.t = "list" -> Len(x.v) # 0
      [] x.t = "bool" -> x.v
      [] OTHER -> TRUE

\* dict.get(key, default): a key that is not in the dict is modelled as the
\* field holding Missing; a key that maps to JSON null holds PyNone.
Missing == [t |-> "missing"]
Get(value, default) == IF value = Missing THEN default ELSE value

\* int(a / b) for b > 0: true division, then truncation towards zero.
IntTrueDiv(a, b) == IF a >= 0 THEN a \div b ELSE -((-a) \div b)

Min(a, b) == IF a <= b THEN a ELSE b
Max(a, b) == IF a >= b THEN a ELSE b

(***************************************************************************)
(* Bounds and input sets                                                   *)
(***************************************************************************)
MaxClock == 3
MaxDeps == 3
MaxMaxDepartures == 2

\* The requested stop id (entry.data[CONF_STOP_ID]).
StopId == "123"

(***************************************************************************)
(* Upstream responses                                                      *)
(***************************************************************************)
\* One entry of the "stops" array of the stop-info endpoint: a JSON object
\* {stopID, stopName, ezLines} with any key possibly left out, or JSON null.
StopObject(id, name, lines) ==
    [t |-> "dict", stopID |-> id, stopName |-> name, ezLines |-> lines]

StopEntries ==
    {PyNone} \cup
    {StopObject(id, name, lines) :
        id \in {PyStr(StopId), PyStr("999")},
        name \in {Missing, PyStr("Hlavna")},
        lines \in {Missing, PyList(<<"21", "22">>)}}

\* Bodies with status "ok" over every stop list, and one error body that
\* carries a well-formed stop list all the same.
StopInfoBodies ==
    {[status |-> PyStr("ok"), stops |-> sp] :
        sp \in {Missing, PyList(<<>>)} \cup {PyList(<<e>>) : e \in StopEntries}}
    \cup {[status |-> PyStr("error"),
           stops |-> PyList(<<StopObject(PyStr(StopId), PyStr("Hlavna"),
                                         PyList(<<"21", "22">>))>>)]}

\* What session.get / session.post can do: raise aiohttp.ClientError, raise
\* asyncio.TimeoutError (not a ClientError) when API_TIMEOUT elapses, or
\* answer with a status and a JSON body.
Response(status, body) == [kind |-> "response", status |-> status, body |-> body]
ClientError == [kind |-> "ClientError"]
TimeoutError == [kind |-> "TimeoutError"]

StopInfoOutcomes ==
    {ClientError, TimeoutError, Response(500, Missing)}
        \cup {Response(200, b) : b \in StopInfoBodies}

\* One entry of the "departures" array, flattened: line, destination and
\* direction live under timeTableTrip in the JSON.
Departure(line, dest, dir, planned, delay, platform) ==
    [line |-> line, destinationStopName |-> dest, ezTripDirection |-> dir,
     plannedDepartureTimestamp |-> planned, delayMinutes |-> delay,
     platformNumber |-> platform]

DepA == Departure(PyStr("21"), PyStr("Centrum"), PyStr("here"), PyInt(120), PyInt(1), PyStr("A"))
DepB == Departure(PyStr("22"), PyStr("Petrzalka"), PyStr("there"), PyInt(60), Missing, Missing)

DepartureBoards == {<<>>, <<DepA>>, <<DepB, DepA>>}

DeparturesOutcomes ==
    {ClientError, TimeoutError, Response(500, Missing),
     Response(200, [departures |-> Missing])}
        \cup {Response(200, [departures |-> PyList(b)]) : b \in DepartureBoards}

(***************************************************************************)
(* coordinator.py                                                          *)
(***************************************************************************)
\* The instance fields the fetch methods read and write.
Self(name, lines, updated) ==
    [stop_name |-> name, stopping_lines |-> lines, last_update |-> updated]

\* MhdBaDataUpdateCoordinator.__init__
NewCoordinator == Self(PyNone, PyList(<<>>), PyStr(""))

\* dt_util.now().strftime("%d.%m.%Y %H:%M:%S") at clock reading c.
FormatNow(c) == [t |-> "str", v |-> "now", at |-> c]

\* _fetch_stop_info as it would be with the stop id check of validate_stop_id.
FetchStopInfoCheckingId(self, si) ==
    LET unchanged == [stop_name |-> self.stop_name,
                      stopping_lines |-> self.stopping_lines,
                      raised |-> "none"]
    IN  IF si.kind = "ClientError" THEN unchanged
        ELSE IF si.kind = "TimeoutError"
            THEN [unchanged EXCEPT !.raised = "TimeoutError"]
        ELSE IF si.status # 200 THEN unchanged
        ELSE IF si.body.status # PyStr("ok")
                \/ ~Truthy(Get(si.body.stops, PyNone)) THEN unchanged
        ELSE LET stop_data == si.body.stops.v[1]
             IN  IF stop_data.t # "dict"
                     THEN [unchanged EXCEPT !.raised = "AttributeError"]
                 ELSE IF Get(stop_data.stopID, PyNone) # PyStr(StopId)
                     THEN unchanged
                     ELSE [stop_name |-> Get(stop_data.stopName, PyNone),
                           stopping_lines |-> Get(stop_data.ezLines, PyList(<<>>)),
                           raised |-> "none"]

\* _fetch_stop_info: the fields after the call and the exception that left it.
FetchStopInfo(self, si) ==
    LET unchanged == [stop_name |-> self.stop_name,
                      stopping_lines |-> self.stopping_lines,
                      raised |-> "none"]
    IN  IF si.kind = "ClientError" THEN unchanged
        ELSE IF si.kind = "TimeoutError"
            THEN [unchanged EXCEPT !.raised = "TimeoutError"]
        ELSE IF si.status # 200 THEN unchanged
        ELSE IF si.body.status # PyStr("ok")
                \/ ~Truthy(Get(si.body.stops, PyNone)) THEN unchanged
        ELSE LET stop_data == si.body.stops.v[1]
             IN  IF stop_data.t # "dict"
                     THEN [unchanged EXCEPT !.raised = "AttributeError"]
                     ELSE [stop_name |-> Get(stop_data.stopName, PyNone),
                           stopping_lines |-> Get(stop_data.ezLines, PyList(<<>>)),
                           raised |-> "none"]

\* _fetch_departures as it would be with `return []` for a missing field.
FetchDeparturesEmptyList(self, dep, c) ==
    LET failed(e) == [last_update |-> self.last_update, raised |-> e,
                      result |-> PyNone]
    IN  IF dep.kind = "ClientError" THEN failed("ClientError")
        ELSE IF dep.kind = "TimeoutError" THEN failed("TimeoutError")
        ELSE IF dep.status # 200 THEN failed("UpdateFailed")
        ELSE IF dep.body.departures = Missing
            THEN [last_update |-> self.last_update, raised |-> "none",
                  result |-> PyList(<<>>)]
        ELSE [last_update |-> FormatNow(c), raised |-> "none",
              result |-> dep.body.departures]

\* _fetch_departures as it would be if last_update were stamped as soon as
\* the endpoint answered, before the body is looked at.
FetchDeparturesStampFirst(self, dep, c) ==
    LET failed(e, updated) == [last_update |-> updated, raised |-> e,
                               result |-> PyNone]
    IN  IF dep.kind = "ClientError" THEN failed("ClientError", self.last_update)
        ELSE IF dep.kind = "TimeoutError"
            THEN failed("TimeoutError", self.last_update)
        ELSE IF dep.status # 200 THEN failed("UpdateFailed", FormatNow(c))
        ELSE IF dep.body.departures = Missing
            THEN failed("TypeError", FormatNow(c))
        ELSE [last_update |-> FormatNow(c), raised |-> "none",
              result |-> dep.body.departures]

\* _fetch_departures: last_update after the call, the exception that left it
\* and the value returned. `return {[]}` builds a set holding a list, which
\* raises TypeError (a list is unhashable).
FetchDepartures(self, dep, c) ==
    LET failed(e) == [last_update |-> self.last_update, raised |-> e,
                      result |-> PyNone]
    IN  IF dep.kind = "ClientError" THEN failed("ClientError")
        ELSE IF dep.kind = "TimeoutError" THEN failed("TimeoutError")
        ELSE IF dep.status # 200 THEN failed("UpdateFailed")
        ELSE IF dep.body.departures = Missing THEN failed("TypeError")
        ELSE [last_update |-> FormatNow(c), raised |-> "none",
              result |-> dep.body.departures]

\* The snapshot dict _async_update_data returns.
Snapshot(departures, name, lines, updated) ==
    [t |-> "dict", departures |-> departures, stop_name |-> name,
     stopping_lines |-> lines, last_update |-> updated]

\* _async_update_data as it would be if it fetched stop info in every cycle.
AsyncUpdateDataAlwaysFetch(self, si, dep, c) ==
    LET info == FetchStopInfo(self, si)
        mid == Self(info.stop_name, info.stopping_lines, self.last_update)
    IN  IF info.raised # "none"
            THEN [self |-> mid, raised |-> info.raised, result |-> PyNone,
                  stop_info_issued |-> TRUE, departures_issued |-> FALSE]
            ELSE LET d == FetchDepartures(mid, dep, c)
                 IN  [self |-> Self(mid.stop_name, mid.stopping_lines, d.last_update),
                      raised |-> IF d.raised = "ClientError" THEN "UpdateFailed"
                                 ELSE d.raised,
                      result |-> IF d.raised = "none"
                                 THEN Snapshot(d.result, mid.stop_name,
                                               mid.stopping_lines, d.last_update)
                                 ELSE PyNone,
                      stop_info_issued |-> TRUE, departures_issued |-> TRUE]

\* _async_update_data as it would be if a failed departures fetch were
\* swallowed and answered with an empty board.
AsyncUpdateDataSwallow(self, si, dep, c) ==
    LET issue == self.stop_name = PyNone
        info == IF issue THEN FetchStopInfo(self, si)
                ELSE [stop_name |-> self.stop_name,
                      stopping_lines |-> self.stopping_lines,
                      raised |-> "none"]
        mid == Self(info.stop_name, info.stopping_lines, self.last_update)
    IN  IF info.raised # "none"
            THEN [self |-> mid, raised |-> info.raised, result |-> PyNone,
                  stop_info_issued |-> issue, departures_issued |-> FALSE]
            ELSE LET d == FetchDepartures(mid, dep, c)
                 IN  [self |-> Self(mid.stop_name, mid.stopping_lines, d.last_update),
                      raised |-> "none",
                      result |-> Snapshot(IF d.raised = "none" THEN d.result
                                          ELSE PyList(<<>>),
                                          mid.stop_name, mid.stopping_lines,
                                          d.last_update),
                      stop_info_issued |-> issue, departures_issued |-> TRUE]

\* _async_update_data: the fields after the call, the exception that left it
\* (aiohttp.ClientError is re-raised as UpdateFailed) and the snapshot.
AsyncUpdateData(self, si, dep, c) ==
    LET issue == self.stop_name = PyNone
        info == IF issue THEN FetchStopInfo(self, si)
                ELSE [stop_name |-> self.stop_name,
                      stopping_lines |-> self.stopping_lines,
                      raised |-> "none"]
        mid == Self(info.stop_name, info.stopping_lines, self.last_update)
    IN  IF info.raised # "none"
            THEN [self |-> mid, raised |-> info.raised, result |-> PyNone,
                  stop_info_issued |-> issue, departures_issued |-> FALSE]
            ELSE LET d == FetchDepartures(mid, dep, c)
                 IN  [self |-> Self(mid.stop_name, mid.stopping_lines, d.last_update),
                      raised |-> IF d.raised = "ClientError" THEN "UpdateFailed"
                                 ELSE d.raised,
                      result |-> IF d.raised = "none"
                                 THEN Snapshot(d.result, mid.stop_name,
                                               mid.stopping_lines, d.last_update)
                                 ELSE PyNone,
                      stop_info_issued |-> issue, departures_issued |-> TRUE]

\* A stop-info response that passes the checks of _fetch_stop_info and whose
\* first stop is read.
Accepted(si) ==
    /\ si.kind = "response"
    /\ si.status = 200
    /\ si.body.status = PyStr("ok")
    /\ Truthy(Get(si.body.stops, PyNone))
    /\ si.body.stops.v[1].t = "dict"

\* One refresh of the DataUpdateCoordinator base class around
\* _async_update_data: an exception of any class leaves data as it was and
\* clears last_update_success; a returned snapshot replaces data.
RefreshCycle(kind, self, si, dep) ==
    LET r == AsyncUpdateData(self, si, dep, clock + 1)
        ok == r.raised = "none"
    IN  /\ clock' = clock + 1
        /\ stop_name' = r.self.stop_name
        /\ stopping_lines' = r.self.stopping_lines
        /\ last_update' = r.self.last_update
        /\ data' = IF ok THEN r.result ELSE IF kind = "setup" THEN PyNone ELSE data
        /\ last_update_success' = ok
        /\ published' = IF ok THEN r.result
                        ELSE IF kind = "setup" THEN PyNone ELSE published
        /\ lastOp' = [kind |-> kind, stop_info |-> si, departures |-> dep,
                      raised |-> r.raised,
                      stop_info_issued |-> r.stop_info_issued,
                      departures_issued |-> r.departures_issued,
                      pre |-> [self |-> self,
                               data |-> IF kind = "setup" THEN PyNone ELSE data,
                               accepted |-> kind # "setup" /\ lastOp.accepted,
                               named |-> kind # "setup" /\ lastOp.named],
                      accepted |-> \/ kind # "setup" /\ lastOp.accepted
                                   \/ r.stop_info_issued /\ Accepted(si),
                      named |-> \/ kind # "setup" /\ lastOp.named
                                \/ r.self.stop_name # PyNone]

(***************************************************************************)
(* __init__.py                                                             *)
(***************************************************************************)
\* async_setup_entry as it would be without the check of the first refresh.
SetupEntryUnchecked(si, dep) ==
    /\ setup # "ready"
    /\ clock < MaxClock
    /\ RefreshCycle("setup", NewCoordinator, si, dep)
    /\ setup' = "ready"
    /\ registry' = TRUE
    /\ sensor' = TRUE
    /\ UNCHANGED <<config, now, view, entries, flow>>

\* async_setup_entry: a new coordinator, its first refresh, and only when
\* that succeeded the registration and the sensor platform.
SetupEntry(si, dep) ==
    /\ setup # "ready"
    /\ clock < MaxClock
    /\ RefreshCycle("setup", NewCoordinator, si, dep)
    /\ LET ok == AsyncUpdateData(NewCoordinator, si, dep, clock + 1).raised = "none"
       IN  /\ setup' = IF ok THEN "ready" ELSE "not_ready"
           /\ registry' = ok
           /\ sensor' = ok
    /\ UNCHANGED <<config, now, view, entries, flow>>

\* The scheduled refresh (update_interval) of a coordinator that has listeners.
Refresh(si, dep) ==
    /\ setup = "ready"
    /\ clock < MaxClock
    /\ RefreshCycle("refresh", Self(stop_name, stopping_lines, last_update), si, dep)
    /\ UNCHANGED <<setup, registry, sensor, config, now, view, entries, flow>>

NoOp ==
    [kind |-> "none", accepted |-> FALSE, named |-> FALSE]

\* async_unload_entry
UnloadEntry ==
    /\ setup = "ready"
    /\ setup' = "unloaded"
    /\ registry' = FALSE
    /\ sensor' = FALSE
    /\ lastOp' = NoOp
    /\ UNCHANGED <<stop_name, stopping_lines, last_update, data,
                   last_update_success, clock, published, config, now, view,
                   entries, flow>>

DefaultConfig ==
    [max_departures |-> 10, filter_lines |-> <<>>, direction |-> "all"]

Init ==
    /\ stop_name = PyNone
    /\ stopping_lines = PyList(<<>>)
    /\ last_update = PyStr("")
    /\ data = PyNone
    /\ last_update_success = TRUE
    /\ clock = 0
    /\ setup = "pending"
    /\ registry = FALSE
    /\ sensor = FALSE
    /\ lastOp = NoOp
    /\ published = PyNone
    /\ config = DefaultConfig
    /\ now = 0
    /\ view = PyNone
    /\ entries = {}
    /\ flow = PyNone

Next ==
    \/ \E si \in StopInfoOutcomes, dep \in DeparturesOutcomes : SetupEntry(si, dep)
    \/ \E si \in StopInfoOutcomes, dep \in DeparturesOutcomes : Refresh(si, dep)
    \/ UnloadEntry

Spec == Init /\ [][Next]_vars

(***************************************************************************)
(* sensor.py                                                               *)
(***************************************************************************)
DIRECTION_ALL == "all"
DIRECTION_HERE == "here"

\* The sensor's settings: max_departures, filter_lines (a list of line
\* names) and direction, as __init__ takes them from the config entry.
Config(max, lines, direction) ==
    [max_departures |-> max, filter_lines |-> lines, direction |-> direction]

\* x in filter_lines
InList(x, list) == \E i \in 1..Len(list) : list[i] = x

\* _calculate_departure_time
CalculateDepartureTime(planned_timestamp, delay_minutes) ==
    PyInt(planned_timestamp.v + (delay_minutes.v * 60))

\* _calculate_time_until_departure, with utcnow() reading n
CalculateTimeUntilDeparture(departure_calculated, n) ==
    IF departure_calculated = PyNone THEN PyNone
    ELSE PyInt(departure_calculated.v - n)

\* _should_include_departure as it would be if direction "there" let
\* arrivals through.
ShouldIncludeDepartureLax(departure, cfg) ==
    LET line == Get(departure.line, PyNone)
        departure_direction == Get(departure.ezTripDirection, PyNone)
    IN  IF Len(cfg.filter_lines) # 0
            /\ (~Truthy(line) \/ ~InList(line, cfg.filter_lines))
        THEN FALSE
        ELSE IF cfg.direction # DIRECTION_ALL
                /\ cfg.direction = DIRECTION_HERE
                /\ departure_direction # PyStr("here")
        THEN FALSE
        ELSE TRUE

\* _should_include_departure
ShouldIncludeDeparture(departure, cfg) ==
    LET line == Get(departure.line, PyNone)
        departure_direction == Get(departure.ezTripDirection, PyNone)
    IN  IF Len(cfg.filter_lines) # 0
            /\ (~Truthy(line) \/ ~InList(line, cfg.filter_lines))
        THEN FALSE
        ELSE IF cfg.direction # DIRECTION_ALL
                /\ cfg.direction = DIRECTION_HERE
                /\ departure_direction # PyStr("here")
        THEN FALSE
        ELSE IF cfg.direction # DIRECTION_ALL
                /\ cfg.direction # DIRECTION_HERE
                /\ departure_direction = PyStr("here")
        THEN FALSE
        ELSE TRUE

\* [d for d in data["departures"] if self._should_include_departure(d)]
FilteredDepartures(snapshot, cfg) ==
    SelectSeq(snapshot.departures.v, LAMBDA d : ShouldIncludeDeparture(d, cfg))

\* The f-string of native_value: "{line} -> {destination}" when minutes is
\* None, "{line} -> {destination} in {minutes} min" otherwise.
Headline(line, destination, minutes) ==
    [t |-> "str", v |-> "headline", line |-> line,
     destination |-> destination, minutes |-> minutes]

\* native_value, with utcnow() reading n
NativeValue(snapshot, cfg, n) ==
    IF ~Truthy(snapshot) THEN PyNone
    ELSE LET filtered_departures == FilteredDepartures(snapshot, cfg)
         IN  IF Len(filtered_departures) = 0 THEN PyNone
             ELSE LET next_departure == filtered_departures[1]
                      line == Get(next_departure.line, PyStr("Unknown"))
                      destination == Get(next_departure.destinationStopName,
                                         PyStr("Unknown"))
                      planned_timestamp ==
                          Get(next_departure.plannedDepartureTimestamp, PyNone)
                      delay_minutes == Get(next_departure.delayMinutes, PyInt(0))
                  IN  IF ~Truthy(planned_timestamp)
                      THEN Headline(line, destination, PyNone)
                      ELSE LET departure_calculated ==
                                   CalculateDepartureTime(planned_timestamp,
                                                          delay_minutes)
                               seconds ==
                                   CalculateTimeUntilDeparture(departure_calculated, n)
                           IN  IF seconds = PyNone \/ seconds.v <= 0
                               THEN Headline(line, destination, PyInt(0))
                               ELSE Headline(line, destination,
                                             PyInt(IntTrueDiv(seconds.v, 60)))

\* as_local(datetime.fromtimestamp(ts, tz=UTC)).strftime("%H:%M"), for a
\* local time zone at UTC.
FormatHHMM(ts) ==
    [t |-> "str", v |-> "HH:MM", hour |-> (ts % 86400) \div 3600,
     minute |-> (ts % 3600) \div 60]

\* One dict appended to attributes["departures"].
DetailEntry(departure, n) ==
    LET planned_timestamp == Get(departure.plannedDepartureTimestamp, PyNone)
        delay_minutes == Get(departure.delayMinutes, PyInt(0))
        departure_calculated ==
            IF Truthy(planned_timestamp)
            THEN CalculateDepartureTime(planned_timestamp, delay_minutes)
            ELSE PyNone
        time_until_calculated_departure ==
            IF Truthy(planned_timestamp)
            THEN CalculateTimeUntilDeparture(departure_calculated, n)
            ELSE PyNone
    IN  [line |-> Get(departure.line, PyStr("Unknown")),
         planed_departure |-> planned_timestamp,
         planed_departure_formatted |->
             IF Truthy(planned_timestamp) THEN FormatHHMM(planned_timestamp.v)
             ELSE PyNone,
         delay |-> delay_minutes,
         departute_calculated |-> departure_calculated,
         calculated_departure_formatted |->
             IF Truthy(departure_calculated)
             THEN FormatHHMM(departure_calculated.v) ELSE PyNone,
         seconds_until_departure |->
             IF Truthy(departure_calculated)
             THEN time_until_calculated_departure ELSE PyNone,
         minutes_until_departure |->
             IF Truthy(departure_calculated)
                 /\ Truthy(time_until_calculated_departure)
             THEN PyInt(IntTrueDiv(time_until_calculated_departure.v, 60))
             ELSE PyNone,
         destination |-> Get(departure.destinationStopName, PyStr("Unknown")),
         platform |-> Get(departure.platformNumber, PyNone),
         direction |-> Get(departure.ezTripDirection, PyNone)]

\* filtered_departures[: self._max_departures], for max_departures >= 0
Prefix(list, max) == SubSeq(list, 1, Min(max, Len(list)))

\* extra_state_attributes as it would be without the max_departures limit.
ExtraStateAttributesUnlimited(snapshot, cfg, n) ==
    LET filtered_departures == FilteredDepartures(snapshot, cfg)
    IN  [last_update |-> snapshot.last_update,
         departures |->
             [i \in 1..Len(filtered_departures) |->
                 DetailEntry(filtered_departures[i], n)],
         stop_name |-> IF Truthy(snapshot.stop_name) THEN snapshot.stop_name
                       ELSE PyNone,
         stopping_lines |-> IF Truthy(snapshot.stopping_lines)
                            THEN snapshot.stopping_lines ELSE PyList(<<>>),
         max_departures |-> cfg.max_departures,
         filter_lines |-> cfg.filter_lines,
         direction |-> cfg.direction]

\* extra_state_attributes, with utcnow() reading n, of a sensor whose
\* coordinator holds a snapshot.
ExtraStateAttributes(snapshot, cfg, n) ==
    LET shown == Prefix(FilteredDepartures(snapshot, cfg), cfg.max_departures)
    IN  [last_update |-> snapshot.last_update,
         departures |-> [i \in 1..Len(shown) |-> DetailEntry(shown[i], n)],
         stop_name |-> IF Truthy(snapshot.stop_name) THEN snapshot.stop_name
                       ELSE PyNone,
         stopping_lines |-> IF Truthy(snapshot.stopping_lines)
                            THEN snapshot.stopping_lines ELSE PyList(<<>>),
         max_departures |-> cfg.max_departures,
         filter_lines |-> cfg.filter_lines,
         direction |-> cfg.direction]

\* Home Assistant reads the state of the sensor.
ReadNativeValue ==
    /\ sensor
    /\ view' = [op |-> "native_value", value |-> NativeValue(data, config, now)]
    /\ UNCHANGED <<coordVars, config, now, entries, flow>>

\* Home Assistant reads the attributes of the sensor.
ReadAttributes ==
    /\ sensor
    /\ view' = [op |-> "attributes",
                value |-> ExtraStateAttributes(data, config, now)]
    /\ UNCHANGED <<coordVars, config, now, entries, flow>>

\* The filter applied to the i-th departure of the snapshot.
CallShouldInclude(i) ==
    /\ sensor
    /\ i \in 1..Len(data.departures.v)
    /\ view' = [op |-> "should_include", index |-> i,
                value |-> PyBool(ShouldIncludeDeparture(data.departures.v[i], config))]
    /\ UNCHANGED <<coordVars, config, now, entries, flow>>

(***************************************************************************)
(* The sensor over bounded snapshots, settings and clock readings          *)
(***************************************************************************)
SeqsUpTo(S, n) == UNION {[1..k -> S] : k \in 0..n}

Directions == {DIRECTION_ALL, DIRECTION_HERE, "there", "both"}

\* filter_lines as parse_filter_lines leaves them: stripped, never empty.
FilterLineLists == {<<>>, <<PyStr("21")>>, <<PyStr("99"), PyStr("22")>>}

SensorConfigs ==
    {Config(m, f, d) :
        m \in 1..MaxMaxDepartures, f \in FilterLineLists, d \in Directions}

\* Single departures over every line and direction tag, without timing.
FilterBoards ==
    {<<Departure(line, PyStr("Centrum"), dir, Missing, Missing, Missing)>> :
        line \in {Missing, PyStr(""), PyStr("21"), PyStr("22")},
        dir \in {Missing, PyStr("here"), PyStr("there")}}

\* Boards of up to MaxDeps departures that differ in line, direction and
\* platform.
BoardDepartures ==
    {Departure(PyStr("21"), PyStr("Centrum"), PyStr("here"), Missing, Missing, PyStr("A")),
     Departure(PyStr("21"), PyStr("Centrum"), PyStr("there"), Missing, Missing, PyStr("B")),
     Departure(PyStr("22"), PyStr("Raca"), PyStr("here"), Missing, Missing, PyStr("C")),
     Departure(PyStr("22"), PyStr("Raca"), Missing, Missing, Missing, Missing)}

ListBoards == SeqsUpTo(BoardDepartures, MaxDeps)

\* Departures of line 22 over planned timestamps and delays, alone or behind
\* a departure of line 21.
TimedDepartures ==
    {Departure(PyStr("22"), PyStr("Raca"), PyStr("there"), planned, delay, Missing) :
        planned \in {Missing, PyInt(0), PyInt(60), PyInt(120)},
        delay \in {Missing, PyInt(-1), PyInt(0), PyInt(1)}}

TimedBoards ==
    {<<d>> : d \in TimedDepartures} \cup {<<DepA, d>> : d \in TimedDepartures}

TimedConfigs ==
    {Config(m, f, DIRECTION_ALL) :
        m \in 1..MaxMaxDepartures, f \in {<<>>, <<PyStr("99"), PyStr("22")>>}}

Nows == {0, 30, 60, 90}

ViewInputs ==
    ((FilterBoards \cup ListBoards) \X SensorConfigs \X {0})
        \cup (TimedBoards \X TimedConfigs \X Nows)

\* A set-up entry whose coordinator holds a snapshot of the board.
InitView ==
    \E input \in ViewInputs :
        /\ stop_name = PyStr("Hlavna")
        /\ stopping_lines = PyList(<<"21", "22">>)
        /\ last_update = FormatNow(1)
        /\ data = Snapshot(PyList(input[1]), stop_name, stopping_lines, last_update)
        /\ last_update_success = TRUE
        /\ clock = 1
        /\ setup = "ready"
        /\ registry = TRUE
        /\ sensor = TRUE
        /\ lastOp = NoOp
        /\ published = data
        /\ config = input[2]
        /\ now = input[3]
        /\ view = PyNone
        /\ entries = {}
        /\ flow = PyNone

NextView ==
    \/ ReadNativeValue
    \/ ReadAttributes
    \/ \E i \in 1..MaxDeps : CallShouldInclude(i)

SpecView == InitView /\ [][NextView]_vars

(***************************************************************************)
(* config_flow.py                                                          *)
(*                                                                         *)
(* The strings the config flow splits, sorts and joins are sequences of    *)
(* one-character strings.                                                  *)
(***************************************************************************)
Text(chars) == [t |-> "text", v |-> chars]

\* bool(x), for texts as well.
TruthyValue(x) == IF x.t = "text" THEN Len(x.v) # 0 ELSE Truthy(x)

\* The characters of stop ids, filter lines and separators by code point.
CharOrder ==
    <<" ", ",", "-", "0", "1", "2", "3", "4", "5", "6", "7", "8", "9", ";", "_">>
Code(c) == CHOOSE i \in 1..Len(CharOrder) : CharOrder[i] = c

\* a < b for str: lexicographic by code point.
RECURSIVE StrLess(_, _)
StrLess(a, b) ==
    IF Len(b) = 0 THEN FALSE
    ELSE IF Len(a) = 0 THEN TRUE
    ELSE IF Head(a) = Head(b) THEN StrLess(Tail(a), Tail(b))
    ELSE Code(Head(a)) < Code(Head(b))

RECURSIVE Insert(_, _)
Insert(x, list) ==
    IF Len(list) = 0 THEN <<x>>
    ELSE IF StrLess(x, Head(list)) THEN <<x>> \o list
    ELSE <<Head(list)>> \o Insert(x, Tail(list))

\* sorted(filter_lines)
RECURSIVE Sorted(_)
Sorted(list) ==
    IF Len(list) = 0 THEN <<>> ELSE Insert(Head(list), Sorted(Tail(list)))

\* sep.join(list)
RECURSIVE Join(_, _)
Join(sep, list) ==
    IF Len(list) = 0 THEN <<>>
    ELSE IF Len(list) = 1 THEN list[1]
    ELSE list[1] \o sep \o Join(sep, Tail(list))

\* str(n) for an int n >= 0
RECURSIVE DigitsOf(_)
DigitsOf(n) ==
    LET digit(d) == <<"0", "1", "2", "3", "4", "5", "6", "7", "8", "9">>[d + 1]
    IN  IF n < 10 THEN <<digit(n)>>
        ELSE DigitsOf(n \div 10) \o <<digit(n % 10)>>

\* str(x) of a JSON string or number
StrOf(x) == IF x.t = "int" THEN DigitsOf(x.v) ELSE x.v

\* re.split(r"[,;]", text), with the piece read so far
RECURSIVE SplitFrom(_, _)
SplitFrom(text, piece) ==
    IF Len(text) = 0 THEN <<piece>>
    ELSE IF Head(text) \in {",", ";"}
        THEN <<piece>> \o SplitFrom(Tail(text), <<>>)
    ELSE SplitFrom(Tail(text), Append(piece, Head(text)))

\* str.strip()
RECURSIVE LStrip(_)
LStrip(x) == IF Len(x) # 0 /\ Head(x) = " " THEN LStrip(Tail(x)) ELSE x
RECURSIVE RStrip(_)
RStrip(x) ==
    IF Len(x) # 0 /\ x[Len(x)] = " " THEN RStrip(SubSeq(x, 1, Len(x) - 1)) ELSE x
Strip(x) == RStrip(LStrip(x))

\* parse_filter_lines
ParseFilterLines(filter_lines) ==
    IF Len(filter_lines) = 0 THEN <<>>
    ELSE LET lines == SplitFrom(filter_lines, <<>>)
             stripped == [i \in 1..Len(lines) |-> Strip(lines[i])]
         IN  SelectSeq(stripped, LAMBDA line : Len(line) # 0)

\* generate_unique_id of config_flow.py: stop id and filter lines.
FlowGenerateUniqueId(stop_id, filter_lines) ==
    IF Len(filter_lines) = 0 THEN stop_id
    ELSE stop_id \o <<"_">> \o Join(<<"-">>, Sorted(filter_lines))

\* One entry of the "stops" array as validate_stop_id reads it.
FlowStop(id) == [t |-> "dict", stopID |-> id]

ValidationOutcomes ==
    {ClientError, TimeoutError, Response(500, Missing)}
        \cup {Response(200, [stops |-> sp]) :
                sp \in {Missing, PyList(<<>>), PyList(<<PyNone>>),
                        PyList(<<PyStr("x")>>),
                        PyList(<<FlowStop(Missing)>>),
                        PyList(<<FlowStop(Text(<<"1", "2", "3">>))>>),
                        PyList(<<FlowStop(Text(<<"9", "9", "9">>))>>),
                        PyList(<<FlowStop(PyInt(123))>>)}}

\* validate_stop_id: the exception that leaves it, "none" when it returns.
\* An object without keys is falsy; .get on a stop that is not an object
\* raises AttributeError.
ValidateStopId(stop_id, outcome) ==
    IF outcome.kind = "ClientError" THEN "CannotConnect"
    ELSE IF outcome.kind = "TimeoutError" THEN "TimeoutError"
    ELSE IF outcome.status # 200 THEN "CannotConnect"
    ELSE LET stops == Get(outcome.body.stops, PyNone)
         IN  IF ~TruthyValue(stops) THEN "InvalidStopId"
             ELSE LET first == stops.v[1]
                  IN  IF first.t = "dict" /\ first.stopID = Missing
                          THEN "InvalidStopId"
                      ELSE IF ~TruthyValue(first) THEN "InvalidStopId"
                      ELSE IF first.t # "dict" THEN "AttributeError"
                      ELSE IF ~TruthyValue(first.stopID) THEN "InvalidStopId"
                      ELSE IF StrOf(first.stopID) # stop_id THEN "InvalidStopId"
                      ELSE "none"

\* The form data: stop id, max_departures, the filter lines text (when the
\* optional field was filled in) and the direction that the entry carries
\* for the sensor.
UserInput(stop_id, text, direction) ==
    [stop_id |-> stop_id, max_departures |-> 10, filter_lines |-> text,
     direction |-> direction]

UserInputs ==
    {UserInput(<<"1", "2", "3">>, text, direction) :
        text \in {Missing,
                  Text(<<"3", ",", "2", "1">>),
                  Text(<<" ", "2", "1", " ", ";", ";", "3">>)},
        direction \in {DIRECTION_ALL, DIRECTION_HERE}}

\* The title of a created entry.
EntryTitle(stop_id, filter_lines) ==
    IF Len(filter_lines) = 0 THEN <<"Bus Stop ">> \o stop_id
    ELSE <<"Bus Stop ">> \o stop_id \o <<" (Lines: ">>
             \o Join(<<", ">>, filter_lines) \o <<")">>

\* What async_step_user returns, with the input and the answer it came from.
FlowResult(type, errors, input, outcome, lines, unique_id, created) ==
    [type |-> type, errors |-> errors, input |-> input, outcome |-> outcome,
     filter_lines |-> lines, unique_id |-> unique_id, created |-> created]

\* async_step_user(None): the empty form.
OpenForm ==
    /\ flow' = FlowResult("form", "none", PyNone, PyNone, <<>>, PyNone, FALSE)
    /\ UNCHANGED <<coordVars, config, now, view, entries>>

\* async_step_user(user_input): validation, parsing, the unique id check
\* and the entry.
SubmitUserInput(input, outcome) ==
    LET raised == ValidateStopId(input.stop_id, outcome)
        filter_lines ==
            IF TruthyValue(Get(input.filter_lines, PyNone))
            THEN ParseFilterLines(input.filter_lines.v) ELSE <<>>
        unique_id == FlowGenerateUniqueId(input.stop_id, filter_lines)
        error(base) ==
            /\ flow' = FlowResult("form", base, input, outcome, <<>>, PyNone, FALSE)
            /\ UNCHANGED entries
    IN  /\ IF raised = "CannotConnect" THEN error("cannot_connect")
           ELSE IF raised = "InvalidStopId" THEN error("invalid_stop_id")
           ELSE IF raised # "none" THEN error("unknown")
           ELSE IF \E e \in entries : e.unique_id = unique_id
               THEN /\ flow' = FlowResult("abort", "already_configured", input,
                                          outcome, filter_lines,
                                          Text(unique_id), FALSE)
                    /\ UNCHANGED entries
           ELSE /\ flow' = FlowResult("create_entry", "none", input, outcome,
                                      filter_lines, Text(unique_id), TRUE)
                /\ entries' = entries \cup
                       {[unique_id |-> unique_id,
                         title |-> EntryTitle(input.stop_id, filter_lines),
                         stop_id |-> input.stop_id,
                         filter_lines |-> filter_lines,
                         direction |-> input.direction]}
        /\ UNCHANGED <<coordVars, config, now, view>>

NextFlow ==
    \/ OpenForm
    \/ \E input \in UserInputs, outcome \in ValidationOutcomes :
           SubmitUserInput(input, outcome)

SpecFlow == Init /\ [][NextFlow]_vars

(***************************************************************************)
(* Claims about the refresh cycle and the setup                            *)
(***************************************************************************)
Cycled == lastOp.kind # "none"

MissingDeparturesField(dep) ==
    dep.kind = "response" /\ dep.status = 200 /\ dep.body.departures = Missing

DeparturesFetchFailed(dep) ==
    \/ dep.kind \in {"ClientError", "TimeoutError"}
    \/ dep.kind = "response" /\ dep.status # 200

DeparturesFetchOk(dep) ==
    dep.kind = "response" /\ dep.status = 200 /\ dep.body.departures # Missing

\* C1: a departures answer with success status and no 'departures' field
\* ends the cycle as a failure: nothing is published, and the snapshot that
\* was exposed before the cycle is still the one exposed after it.
C1_MissingFieldFailsCycle ==
    (Cycled /\ lastOp.departures_issued
            /\ MissingDeparturesField(lastOp.departures))
        => /\ ~last_update_success
           /\ lastOp.raised # "none"
           /\ data = lastOp.pre.data
           /\ (lastOp.kind = "setup" => setup = "not_ready" /\ ~sensor)

C1_Witness ==
    /\ lastOp.kind = "refresh"
    /\ lastOp.departures_issued
    /\ MissingDeparturesField(lastOp.departures)
    /\ data # PyNone
    /\ Len(data.departures.v) > 0

\* C2: a cycle whose departures fetch fails (non-success status, network
\* error) is recorded as a failure, and the snapshot exposed after it is
\* the one published by the most recent successful cycle, whole.
C2_FailedFetchKeepsLastGood ==
    (Cycled /\ lastOp.departures_issued
            /\ DeparturesFetchFailed(lastOp.departures))
        => /\ ~last_update_success
           /\ data = published
           /\ data = lastOp.pre.data

C2_Witness ==
    /\ lastOp.kind = "refresh"
    /\ lastOp.departures_issued
    /\ DeparturesFetchFailed(lastOp.departures)
    /\ data # PyNone
    /\ data.stop_name # PyNone

\* C3: whatever the stop-info request does, the fetch does not raise, the
\* metadata stays absent unless a response was accepted, and the departures
\* fetch of the same cycle is issued and its result published.
C3_StopInfoNeverFailsCycle ==
    (Cycled /\ lastOp.stop_info_issued)
        => /\ lastOp.departures_issued
           /\ (~Accepted(lastOp.stop_info) => stop_name = PyNone)
           /\ (DeparturesFetchOk(lastOp.departures)
                 => /\ last_update_success
                    /\ data # PyNone
                    /\ data.departures = lastOp.departures.body.departures)

\* The first entry of the stop list of an accepted stop-info response.
FirstStop(si) == si.body.stops.v[1]

\* C4 (as claimed): the stop-info fetch stores a name and lines only when
\* the first stop's identifier equals the requested stop id; when the
\* identifier differs the metadata stays as it was, unset.
C4_StoresOnlyMatchingStopId ==
    (Cycled /\ lastOp.stop_info_issued /\ Accepted(lastOp.stop_info)
            /\ Get(FirstStop(lastOp.stop_info).stopID, PyNone) # PyStr(StopId))
        => /\ stop_name = PyNone
           /\ stopping_lines = lastOp.pre.self.stopping_lines

\* C4 (amended): the stop-info fetch stores the name and the lines of the
\* first stop of every accepted response (status 200, body status "ok",
\* non-empty stop list), whatever that stop's identifier; a response that is
\* not accepted leaves the name unset and the lines as they were.
C4_StoresFirstStopWhateverItsId ==
    (Cycled /\ lastOp.stop_info_issued)
        => IF Accepted(lastOp.stop_info)
           THEN /\ stop_name = Get(FirstStop(lastOp.stop_info).stopName, PyNone)
                /\ stopping_lines =
                       Get(FirstStop(lastOp.stop_info).ezLines, PyList(<<>>))
           ELSE /\ stop_name = PyNone
                /\ stopping_lines = lastOp.pre.self.stopping_lines

C4_Witness ==
    /\ Cycled
    /\ lastOp.stop_info_issued
    /\ Accepted(lastOp.stop_info)
    /\ FirstStop(lastOp.stop_info).stopID = PyStr("999")
    /\ stop_name = PyStr("Hlavna")
    /\ stopping_lines = PyList(<<"21", "22">>)

\* C5 (as claimed): once a stop-info response has been accepted, no later
\* cycle issues another stop-info request.
C5_NoRequestAfterAccepted ==
    Cycled => ~(lastOp.pre.accepted /\ lastOp.stop_info_issued)

\* C5 (amended): a cycle issues a stop-info request exactly when it starts
\* with the display name absent, and once a request has stored a display
\* name no later cycle issues another.
C5_NoRequestAfterNameStored ==
    Cycled => /\ lastOp.stop_info_issued <=> lastOp.pre.self.stop_name = PyNone
              /\ lastOp.pre.named => ~lastOp.stop_info_issued
              /\ lastOp.named => stop_name # PyNone

C5_Witness ==
    /\ lastOp.kind = "refresh"
    /\ lastOp.pre.named
    /\ lastOp.pre.accepted
    /\ ~lastOp.stop_info_issued
    /\ last_update_success

Read(op) == view # PyNone /\ view.op = op

\* The positions of the snapshot's departures that the claimed filter lets
\* through: the line filter is empty or holds the departure's line, and the
\* direction is ALL, or HERE with tag "here", or another value with a tag
\* (possibly missing) that is not "here".
ClaimedInclude(d, cfg) ==
    /\ \/ Len(cfg.filter_lines) = 0
       \/ d.line # Missing /\ InList(d.line, cfg.filter_lines)
    /\ \/ cfg.direction = "all"
       \/ cfg.direction = "here" /\ d.ezTripDirection = PyStr("here")
       \/ cfg.direction \notin {"all", "here"} /\ d.ezTripDirection # PyStr("here")

Matching ==
    {i \in 1..Len(data.departures.v) : ClaimedInclude(data.departures.v[i], config)}

\* The position of i among the matching positions.
Rank(i) == Cardinality({j \in Matching : j <= i})

\* C7: shouldInclude is true exactly when the line condition and the
\* direction condition both hold.
C7_ShouldIncludeExactly ==
    Read("should_include")
        => view.value =
               PyBool(ClaimedInclude(data.departures.v[view.index], config))

C7_Witness ==
    /\ Read("should_include")
    /\ view.value = PyBool(TRUE)
    /\ config.direction = "there"
    /\ Len(config.filter_lines) = 2
    /\ data.departures.v[view.index].ezTripDirection = Missing

FirstMatching == data.departures.v[CHOOSE i \in Matching : \A j \in Matching : i <= j]
HasPlanned(d) == d.plannedDepartureTimestamp \notin {Missing, PyNone}
SecondsUntil(d) ==
    d.plannedDepartureTimestamp.v + 60 * Get(d.delayMinutes, PyInt(0)).v - now

\* C9: for a first matching departure with a planned timestamp the headline
\* carries N = max(0, floor(seconds / 60)), and when the calculated time is
\* in the past its detail entry carries the negative seconds.
C9_HeadlineClampedDetailRaw ==
    (Matching # {} /\ HasPlanned(FirstMatching))
        => /\ Read("native_value")
                => view.value =
                       Headline(Get(FirstMatching.line, PyStr("Unknown")),
                                FirstMatching.destinationStopName,
                                PyInt(Max(0, SecondsUntil(FirstMatching) \div 60)))
           /\ (Read("attributes") /\ SecondsUntil(FirstMatching) < 0)
                => view.value.departures[1].seconds_until_departure =
                       PyInt(SecondsUntil(FirstMatching))

\* C10: in every detail entry the calculated timestamp is defined exactly
\* when the planned timestamp is, and the seconds until departure exactly
\* when the calculated timestamp is.
C10_CalculatedIffPlanned ==
    Read("attributes")
        => \A k \in 1..Len(view.value.departures) :
               LET e == view.value.departures[k]
               IN  /\ e.departute_calculated # PyNone <=> e.planed_departure # PyNone
                   /\ e.seconds_until_departure # PyNone
                          <=> e.departute_calculated # PyNone

(***************************************************************************)
(* Claims about what a failed cycle leaves behind                          *)
(***************************************************************************)
CycleFailed == Cycled /\ lastOp.raised # "none"

\* C13 (as claimed): a refresh cycle that ends in failure leaves every field
\* of the coordinator as it was: the cached stop name and serviced lines and
\* the last-update timestamp as well as the published snapshot.
C13_FailedCycleMutatesNothing ==
    CycleFailed
        => /\ data = lastOp.pre.data
           /\ stop_name = lastOp.pre.self.stop_name
           /\ stopping_lines = lastOp.pre.self.stopping_lines
           /\ last_update = lastOp.pre.self.last_update

\* C13 (amended): a refresh cycle that ends in failure leaves the published
\* snapshot and the last-update timestamp as they were; the cached stop name
\* and serviced lines are as they were unless the cycle's stop-info response
\* was accepted, and then they are those of its first stop although the
\* cycle failed.
C13_FailedCycleKeepsSnapshotAndStamp ==
    CycleFailed
        => /\ data = lastOp.pre.data
           /\ last_update = lastOp.pre.self.last_update
           /\ IF lastOp.stop_info_issued /\ Accepted(lastOp.stop_info)
              THEN /\ stop_name =
                          Get(FirstStop(lastOp.stop_info).stopName, PyNone)
                   /\ stopping_lines =
                          Get(FirstStop(lastOp.stop_info).ezLines, PyList(<<>>))
              ELSE /\ stop_name = lastOp.pre.self.stop_name
                   /\ stopping_lines = lastOp.pre.self.stopping_lines

C13_Witness ==
    /\ lastOp.kind = "refresh"
    /\ lastOp.raised # "none"
    /\ lastOp.stop_info_issued
    /\ Accepted(lastOp.stop_info)
    /\ lastOp.pre.self.stop_name = PyNone
    /\ stop_name = PyStr("Hlavna")
    /\ data # PyNone
    /\ data.stop_name = PyNone
    /\ last_update = lastOp.pre.self.last_update

\* C14: in every detail entry whose seconds until departure s is defined,
\* the minutes until departure are defined and equal floor(s / 60).
C14_MinutesAreFlooredSeconds ==
    Read("attributes")
        => \A k \in 1..Len(view.value.departures) :
               LET e == view.value.departures[k]
               IN  e.seconds_until_departure # PyNone
                       => /\ e.minutes_until_departure # PyNone
                          /\ e.minutes_until_departure =
                                 PyInt(e.seconds_until_departure.v \div 60)

(***************************************************************************)
(* Claims about the config flow                                            *)
(***************************************************************************)
Submitted == flow # PyNone /\ flow.input # PyNone
IdChecked == Submitted /\ flow.type \in {"create_entry", "abort"}

ClaimedUniqueId(stop_id, filter_lines, direction) ==
    stop_id
        \o (IF Len(filter_lines) # 0
            THEN <<"_">> \o Join(<<"-">>, Sorted(filter_lines)) ELSE <<>>)
        \o (IF direction # DIRECTION_ALL THEN <<"_", direction>> ELSE <<>>)

\* C11: the unique id with which the config flow detects an already
\* configured stop is the stop id, then the ascending-sorted filter lines
\* joined with hyphens when there are any, then the direction when it is
\* not "all"; so an entry of the same stop and the same lines entered in any
\* order with the same direction has the same id, and an entry that differs
\* only in direction has a different id.
C11_UniqueIdOfStopLinesDirection ==
    IdChecked
        => /\ flow.unique_id =
                  Text(ClaimedUniqueId(flow.input.stop_id, flow.filter_lines,
                                       flow.input.direction))
           /\ \A e \in entries :
                  (/\ e.stop_id = flow.input.stop_id
                   /\ Sorted(e.filter_lines) = Sorted(flow.filter_lines))
                      => (e.direction = flow.input.direction
                              <=> Text(e.unique_id) = flow.unique_id)

\* The stop-validation request got a success status and its first returned
\* stop has the submitted id.
ValidatedSameId ==
    /\ flow.outcome.kind = "response"
    /\ flow.outcome.status = 200
    /\ LET stops == Get(flow.outcome.body.stops, PyNone)
       IN  /\ stops.t = "list"
           /\ Len(stops.v) # 0
           /\ stops.v[1].t = "dict"
           /\ stops.v[1].stopID # Missing
           /\ StrOf(stops.v[1].stopID) = flow.input.stop_id

ConnectivityFailure ==
    \/ flow.outcome.kind \in {"ClientError", "TimeoutError"}
    \/ flow.outcome.kind = "response" /\ flow.outcome.status # 200

\* C12: an entry is created only if the stop-validation request for the
\* submitted stop id succeeded and its first returned stop has that id; a
\* non-success status or a network failure gives the form again with the
\* error "cannot_connect", an absent or different stop id gives the form
\* again with the error "invalid_stop_id", and neither creates an entry.
C12_EntryOnlyIfValidatedElseItsError ==
    Submitted
        => /\ flow.created => flow.type = "create_entry" /\ ValidatedSameId
           /\ ConnectivityFailure
                  => /\ flow.type = "form"
                     /\ flow.errors = "cannot_connect"
                     /\ ~flow.created
           /\ (~ConnectivityFailure /\ ~ValidatedSameId)
                  => /\ flow.type = "form"
                     /\ flow.errors = "invalid_stop_id"
                     /\ ~flow.created

====
